---- MODULE Spec2Model ----
(***************************************************************************)
(* A model of the two scripts of the repository:                           *)
(*   todoist_add.py  - CSV rows -> Todoist task payloads -> POST /tasks    *)
(*   YTDOIT.py       - TranscriptGrabber: transcripts -> files + clipboard *)
(* Text is modelled as a sequence of one-character strings, so that the    *)
(* string operations of the code (strip, split, upper, lstrip, the regular *)
(* expressions) are computed character by character.                       *)
(***************************************************************************)
EXTENDS Integers, Sequences, FiniteSets, TLC

VARIABLES
    \* ---- to_priority applied to one value
    p_val, p_ret,
    \* ---- parse_content applied to one CONTENT string
    c_tokens, c_content, c_ret,
    \* ---- todoist_add.main
    rows, sections_map, idx, count, posts, created, status, raised_by, done_report, log,
    \* ---- TranscriptGrabber driven by the CLI loop
    raw_file, txt_file, clipboard, g_pc, g_op, g_videos, g_idx, g_combined,
    g_fetched, g_result, g_text

vars == << p_val, p_ret, c_tokens, c_content, c_ret,
           rows, sections_map, idx, count, posts, created, status, raised_by, done_report, log,
           raw_file, txt_file, clipboard, g_pc, g_op, g_videos, g_idx, g_combined,
           g_fetched, g_result, g_text >>

prioVars   == << p_val, p_ret >>
parseVars  == << c_tokens, c_content, c_ret >>
importVars == << rows, sections_map, idx, count, posts, created, status, raised_by, done_report, log >>
grabVars   == << raw_file, txt_file, clipboard, g_pc, g_op, g_videos, g_idx, g_combined,
                 g_fetched, g_result, g_text >>

----------------------------------------------------------------------------
(* Bounds of the model *)

MaxPrioLen == 3     \* longest PRIORITY text tried
MaxTokens  == 3     \* most tokens in one CONTENT
MaxRows    == 2     \* most rows in the CSV
MaxEntries == 3     \* most entries in a playlist listing

----------------------------------------------------------------------------
(* Python values and string primitives *)

\* Python's None, distinct from every text (texts hold one-character strings)
None == << "<None>" >>

Whitespace == { " ", "\t", "\n" }
Digits     == { "0", "1", "2", "3", "4", "5", "6", "7", "8", "9" }

LowerChars == << "a","b","c","d","e","f","g","h","i","j","k","l","m",
                 "n","o","p","q","r","s","t","u","v","w","x","y","z" >>
UpperChars == << "A","B","C","D","E","F","G","H","I","J","K","L","M",
                 "N","O","P","Q","R","S","T","U","V","W","X","Y","Z" >>

Range(s) == { s[i] : i \in 1..Len(s) }

IndexIn(c, s) == CHOOSE i \in 1..Len(s) : s[i] = c

upper_char(c) == IF c \in Range(LowerChars) THEN UpperChars[IndexIn(c, LowerChars)] ELSE c
lower_char(c) == IF c \in Range(UpperChars) THEN LowerChars[IndexIn(c, UpperChars)] ELSE c

\* str.upper(), str.lower()
upper(s) == [i \in 1..Len(s) |-> upper_char(s[i])]
lower(s) == [i \in 1..Len(s) |-> lower_char(s[i])]

\* truthiness of a str-or-None value: None and "" are falsy
Truthy(s) == s # None /\ s # << >>

RECURSIVE lstrip_chars(_, _)
\* str.lstrip(chars): drop every leading character that is in chars
lstrip_chars(s, chars) ==
    IF s # << >> /\ Head(s) \in chars THEN lstrip_chars(Tail(s), chars) ELSE s

RECURSIVE rstrip_chars(_, _)
rstrip_chars(s, chars) ==
    IF s # << >> /\ s[Len(s)] \in chars
    THEN rstrip_chars(SubSeq(s, 1, Len(s) - 1), chars) ELSE s

\* str.strip()
strip(s) == rstrip_chars(lstrip_chars(s, Whitespace), Whitespace)

startswith(s, prefix) ==
    Len(s) >= Len(prefix) /\ SubSeq(s, 1, Len(prefix)) = prefix

\* s[n:]
DropFirst(s, n) == SubSeq(s, n + 1, Len(s))

RECURSIVE split_from(_, _, _)
\* str.split(): cur is the token being read, out the tokens read so far
split_from(s, cur, out) ==
    IF s = << >>
    THEN IF cur = << >> THEN out ELSE Append(out, cur)
    ELSE IF Head(s) \in Whitespace
         THEN split_from(Tail(s), << >>, IF cur = << >> THEN out ELSE Append(out, cur))
         ELSE split_from(Tail(s), Append(cur, Head(s)), out)

split(s) == split_from(s, << >>, << >>)

RECURSIVE join(_, _)
\* sep.join(parts)
join(sep, parts) ==
    IF parts = << >> THEN << >>
    ELSE IF Len(parts) = 1 THEN parts[1]
    ELSE parts[1] \o sep \o join(sep, Tail(parts))

RECURSIVE remove_char(_, _)
\* s.replace(c, "")
remove_char(s, c) ==
    IF s = << >> THEN << >>
    ELSE IF Head(s) = c THEN remove_char(Tail(s), c)
    ELSE << Head(s) >> \o remove_char(Tail(s), c)

AllDigits(s) == s # << >> /\ \A i \in 1..Len(s) : s[i] \in Digits

----------------------------------------------------------------------------
(* todoist_add.to_priority *)

to_priority(val) ==
    IF val = None THEN 4
    ELSE LET s == lstrip_chars(upper(strip(val)), { "P" })
         IN  IF s \notin { <<"1">>, <<"2">>, <<"3">>, <<"4">> } THEN 4
             ELSE CASE s = <<"1">> -> 4
                    [] s = <<"2">> -> 3
                    [] s = <<"3">> -> 2
                    [] s = <<"4">> -> 1

PrioChars == { " ", "P", "p", "1", "2", "3", "4", "9" }


----------------------------------------------------------------------------
(* todoist_add.parse_content *)

\* SECTION_PAT = ^/(week[_ ]?\d+)$ with IGNORECASE; the result is group(1) or None.
\* `$` also matches just before one trailing newline.
SECTION_PAT_match(s) ==
    LET body == IF s # << >> /\ s[Len(s)] = "\n" THEN SubSeq(s, 1, Len(s) - 1) ELSE s
        rest == DropFirst(body, 5)
        digs == IF rest # << >> /\ rest[1] \in { "_", " " } THEN Tail(rest) ELSE rest
    IN  IF startswith(lower(body), << "/", "w", "e", "e", "k" >>) /\ AllDigits(digs)
        THEN DropFirst(body, 1)
        ELSE None

\* parse_token with a guard that keeps the first section found
parse_token_first_wins(t, acc) ==
    IF startswith(t, << "@" >>) /\ Len(t) > 1
    THEN [acc EXCEPT !.labels = Append(@, DropFirst(t, 1))]
    ELSE LET m == IF startswith(t, << "/" >>) THEN SECTION_PAT_match(lower(t)) ELSE None
         IN  IF m # None
             THEN LET normalized == remove_char(remove_char(m, "_"), " ")
                  IN  IF acc.section_name = None
                      THEN [acc EXCEPT !.section_name =
                                           << "W", "e", "e", "k" >> \o DropFirst(normalized, 4)]
                      ELSE acc
             ELSE [acc EXCEPT !.title_parts = Append(@, t)]

\* parse_token that takes every @-token, the bare "@" included, as a label
parse_token_bare_at(t, acc) ==
    IF startswith(t, << "@" >>)
    THEN [acc EXCEPT !.labels = Append(@, DropFirst(t, 1))]
    ELSE LET m == IF startswith(t, << "/" >>) THEN SECTION_PAT_match(lower(t)) ELSE None
         IN  IF m # None
             THEN LET normalized == remove_char(remove_char(m, "_"), " ")
                  IN  [acc EXCEPT !.section_name =
                                      << "W", "e", "e", "k" >> \o DropFirst(normalized, 4)]
             ELSE [acc EXCEPT !.title_parts = Append(@, t)]

\* the body of the loop `for t in tokens`
parse_token(t, acc) ==
    IF startswith(t, << "@" >>) /\ Len(t) > 1
    THEN [acc EXCEPT !.labels = Append(@, DropFirst(t, 1))]
    ELSE LET m == IF startswith(t, << "/" >>) THEN SECTION_PAT_match(lower(t)) ELSE None
         IN  IF m # None
             THEN LET normalized == remove_char(remove_char(m, "_"), " ")
                  IN  [acc EXCEPT !.section_name =
                                      << "W", "e", "e", "k" >> \o DropFirst(normalized, 4)]
             ELSE [acc EXCEPT !.title_parts = Append(@, t)]

RECURSIVE parse_tokens(_, _)
parse_tokens(tokens, acc) ==
    IF tokens = << >> THEN acc
    ELSE parse_tokens(Tail(tokens), parse_token(Head(tokens), acc))

parse_content(content) ==
    IF ~Truthy(content) \/ ~Truthy(strip(content))
    THEN [title |-> << >>, labels |-> << >>, section_name |-> None]
    ELSE LET acc == parse_tokens(split(strip(content)),
                                 [labels |-> << >>, title_parts |-> << >>, section_name |-> None])
         IN  [title        |-> strip(join(<< " " >>, acc.title_parts)),
              labels       |-> acc.labels,
              section_name |-> acc.section_name]

\* The tokens CONTENT is built from
T_A       == << "A" >>
T_Quiz    == << "Q", "u", "i", "z" >>
T_at_b    == << "@", "b" >>
T_at_x    == << "@", "x" >>
T_at      == << "@" >>
T_Week7   == << "/", "W", "e", "e", "k", "7" >>
T_week_03 == << "/", "w", "e", "e", "k", "_", "0", "3" >>
T_slash_x == << "/", "x" >>
T_week    == << "/", "w", "e", "e", "k" >>

TokenPool == { T_A, T_Quiz, T_at_b, T_at_x, T_at, T_Week7, T_week_03, T_slash_x, T_week }

\* whitespace put before, between and after the tokens
LeadPool == { << >>, << " " >> }
SepPool  == { << " " >>, << " ", "\t" >> }

BuildContent(lead, sep, tokens) == lead \o join(sep, tokens) \o lead

----------------------------------------------------------------------------
(* todoist_add.to_iso: datetime.strptime(f"{date_s} {time_s}", "%Y-%m-%d %H:%M") *)

LOCAL_TZ == "Australia/Sydney"

DigitVal(c) == CHOOSE n \in 0..9 : << "0","1","2","3","4","5","6","7","8","9" >>[n + 1] = c

RECURSIVE IntOf(_)
\* int(s) of a text of digits
IntOf(s) == IF s = << >> THEN 0 ELSE 10 * IntOf(SubSeq(s, 1, Len(s) - 1)) + DigitVal(s[Len(s)])

RECURSIVE DigitRun(_, _)
\* how many digits s holds from position i on
DigitRun(s, i) == IF i <= Len(s) /\ s[i] \in Digits THEN 1 + DigitRun(s, i + 1) ELSE 0

RECURSIVE SpaceRun(_, _)
SpaceRun(s, i) == IF i <= Len(s) /\ s[i] \in Whitespace THEN 1 + SpaceRun(s, i + 1) ELSE 0

IsLeap(y) == (y % 4 = 0 /\ y % 100 # 0) \/ y % 400 = 0

DaysInMonth(y, m) ==
    IF m = 2 THEN (IF IsLeap(y) THEN 29 ELSE 28)
    ELSE IF m \in { 4, 6, 9, 11 } THEN 30 ELSE 31

\* A field of one or two digits starting at i, read as the directive's regular
\* expression reads it when the text goes on with a non-digit: its length, or 0.
FieldLen(s, i, lo, hi, oneDigitFrom) ==
    LET n == DigitRun(s, i)
        v == IntOf(SubSeq(s, i, i + n - 1))
    IN  IF n = 2 /\ v >= lo /\ v <= hi THEN 2
        ELSE IF n = 1 /\ v >= oneDigitFrom /\ v <= hi THEN 1
        ELSE 0

\* the format "%Y-%m-%d %H:%M", one item per directive or literal
FORMAT == << "Y", "-", "m", "-", "d", " ", "H", ":", "M" >>

\* How many characters of s the format item f takes at position i; 0 is no match.
\* %Y is \d\d\d\d; %m is 1[0-2]|0[1-9]|[1-9]; %d is 3[0-1]|[1-2]\d|0[1-9]|[1-9]| [1-9];
\* %H is 2[0-3]|[0-1]\d|\d; %M is [0-5]\d|\d; a blank of the format is \s+.
ItemLen(s, i, f) ==
    CASE f = "Y" -> IF DigitRun(s, i) >= 4 THEN 4 ELSE 0
      [] f = "m" -> FieldLen(s, i, 1, 12, 1)
      [] f = "d" -> IF i <= Len(s) /\ s[i] = " "
                    THEN (IF DigitRun(s, i + 1) = 1 /\ s[i + 1] # "0" THEN 2 ELSE 0)
                    ELSE FieldLen(s, i, 1, 31, 1)
      [] f = "H" -> FieldLen(s, i, 0, 23, 0)
      [] f = "M" -> FieldLen(s, i, 0, 59, 0)
      [] f = " " -> SpaceRun(s, i)
      [] OTHER   -> IF i <= Len(s) /\ s[i] = f THEN 1 ELSE 0

RECURSIVE match_format(_, _, _, _)

\* the item Head(fmt) took n characters of s at position i: go on after them
match_next(s, i, fmt, found, n) ==
    IF n = 0 THEN [kind |-> "ValueError"]
    ELSE match_format(s, i + n, Tail(fmt),
                      IF Head(fmt) \in { "Y", "m", "d", "H", "M" }
                      THEN found @@ (Head(fmt) :> IntOf(strip(SubSeq(s, i, i + n - 1))))
                      ELSE found)

\* match s from position i against the items fmt; found holds the fields read
match_format(s, i, fmt, found) ==
    IF fmt = << >>
    THEN IF i = Len(s) + 1 THEN found ELSE [kind |-> "ValueError"]   \* unconverted data remains
    ELSE match_next(s, i, fmt, found, ItemLen(s, i, Head(fmt)))

\* the fields of a matched text checked as datetime(...) checks them
datetime_of(f) ==
    IF f.kind = "ValueError" THEN f
    ELSE IF f["Y"] < 1 \/ f["d"] > DaysInMonth(f["Y"], f["m"])
    THEN [kind |-> "ValueError"]
    ELSE [kind |-> "datetime", year |-> f["Y"], month |-> f["m"], day |-> f["d"],
          hour |-> f["H"], minute |-> f["M"]]

\* datetime.strptime(s, "%Y-%m-%d %H:%M"): the datetime, or ValueError
strptime(s) == datetime_of(match_format(s, 1, FORMAT, [kind |-> "datetime"]))

OrEmpty(s) == IF Truthy(s) THEN s ELSE << >>

\* kind "None" (returned), "ValueError" (raised by strptime), or "iso": the
\* wall-clock reading with the zone attached by replace(tzinfo=ZoneInfo(LOCAL_TZ))
to_iso(date_s, time_s) ==
    LET d == strip(OrEmpty(date_s))
        t == strip(OrEmpty(time_s))
    IN  IF ~Truthy(d) \/ ~Truthy(t) THEN [kind |-> "None"]
        ELSE LET dt == strptime(d \o << " " >> \o t)
             IN  IF dt.kind = "ValueError" THEN [kind |-> "ValueError"]
                 ELSE [kind |-> "iso", dt |-> dt, tzinfo |-> LOCAL_TZ]

----------------------------------------------------------------------------
(* todoist_add.create_task *)

\* due handling with the all-day field written in the timed branch as well
due_fields_both(date_s, time_s, iso) ==
    IF Truthy(date_s) /\ ~Truthy(time_s)
    THEN "due_date" :> strip(date_s)
    ELSE IF iso.kind = "iso"
         THEN ("due_date" :> strip(date_s)) @@ ("due_datetime" :> iso) @@ ("due_lang" :> << "e", "n" >>)
         ELSE << >>

\* lines 168-172: the due fields put into the payload (iso is to_iso's result)
due_fields(date_s, time_s, iso) ==
    IF Truthy(date_s) /\ ~Truthy(time_s)
    THEN "due_date" :> strip(date_s)
    ELSE IF iso.kind = "iso"
         THEN ("due_datetime" :> iso) @@ ("due_lang" :> << "e", "n" >>)
         ELSE << >>

\* sid = sections.get(section_name) is truthy: the name is a key and its id is not 0
HasSection(sections, section_name) ==
    section_name \in DOMAIN sections /\ sections[section_name] # 0

\* create_task without the check of the title
create_task_no_title_check(pid, sections, title, labels, section_name, date_s, time_s, description, priority) ==
    LET base == ("content" :> title) @@ ("project_id" :> pid)
                    @@ ("labels" :> labels) @@ ("priority" :> priority)
        desc == IF Truthy(description) THEN "description" :> description ELSE << >>
        iso  == to_iso(date_s, time_s)
    IN  IF iso.kind = "ValueError" THEN [kind |-> "raise", error |-> "ValueError: time data does not match format"]
        ELSE IF Truthy(section_name) /\ ~HasSection(sections, section_name)
        THEN [kind |-> "raise", error |-> "ValueError: Section not found"]
        ELSE [kind    |-> "post",
              payload |-> base @@ desc @@ due_fields(date_s, time_s, iso)
                              @@ (IF Truthy(section_name) THEN "section_id" :> sections[section_name] ELSE << >>)]

\* What create_task does up to the POST: kind "skip" (return None), "raise"
\* (an exception before any request) or "post" with the payload sent
create_task(pid, sections, title, labels, section_name, date_s, time_s, description, priority) ==
    LET base == ("content" :> title) @@ ("project_id" :> pid)
                    @@ ("labels" :> labels) @@ ("priority" :> priority)
        desc == IF Truthy(description) THEN "description" :> description ELSE << >>
        iso  == to_iso(date_s, time_s)
    IN  IF ~Truthy(title) THEN [kind |-> "skip"]
        ELSE IF iso.kind = "ValueError" THEN [kind |-> "raise", error |-> "ValueError: time data does not match format"]
        ELSE IF Truthy(section_name) /\ ~HasSection(sections, section_name)
        THEN [kind |-> "raise", error |-> "ValueError: Section not found"]
        ELSE [kind    |-> "post",
              payload |-> base @@ desc @@ due_fields(date_s, time_s, iso)
                              @@ (IF Truthy(section_name) THEN "section_id" :> sections[section_name] ELSE << >>)]

----------------------------------------------------------------------------
(* todoist_add.read_rows and main *)

\* one record of csv.DictReader with its values stripped
read_row(raw) == [k \in DOMAIN raw |-> strip(OrEmpty(raw[k]))]

\* r.get(key, default)
row_get(r, key, default) == IF key \in DOMAIN r THEN r[key] ELSE default

\* the id the project lookup returned
project_id == 7

\* what one pass of the loop of main computes for row r before any request
RowOutcome(r, sections) ==
    LET parsed == parse_content(row_get(r, "CONTENT", << >>))
    IN  create_task(project_id, sections, parsed.title, parsed.labels, parsed.section_name,
                    row_get(r, "DUE_DATE", << >>), row_get(r, "DUE_TIME", << >>),
                    row_get(r, "DESCRIPTION", << >>), to_priority(row_get(r, "PRIORITY", None)))

\* The cells the CSV rows are drawn from
S_Week7    == << "W", "e", "e", "k", "7" >>
S_Week03   == << "W", "e", "e", "k", "0", "3" >>
D_good     == << "2","0","2","4","-","0","3","-","0","1" >>
D_month13  == << "2","0","2","4","-","1","3","-","0","1" >>
H_good     == << " ", "0","9",":","3","0" >>
H_hour25   == << "2","5",":","0","0" >>

TextPool ==
    { [CONTENT |-> << >>,                          PRIORITY |-> << >>,        DESCRIPTION |-> << >>],
      [CONTENT |-> T_at_b \o << " " >> \o T_week_03, PRIORITY |-> << "P", "9" >>, DESCRIPTION |-> << "d" >>],
      [CONTENT |-> T_A,                            PRIORITY |-> << "p", "1" >>, DESCRIPTION |-> << >>],
      [CONTENT |-> T_A \o << " " >> \o T_at_b \o << " " >> \o T_Week7 \o << " " >>,
                                                   PRIORITY |-> << "2" >>,    DESCRIPTION |-> << "d" >>],
      [CONTENT |-> T_A \o << " " >> \o T_week_03,    PRIORITY |-> << "P", "4" >>, DESCRIPTION |-> << >>] }

DatePool == { << >>, D_good, D_month13 }
TimePool == { << >>, H_good, H_hour25 }

RowPool ==
    { [CONTENT |-> x.CONTENT, DUE_DATE |-> d, DUE_TIME |-> t,
       PRIORITY |-> x.PRIORITY, DESCRIPTION |-> x.DESCRIPTION] :
          x \in TextPool, d \in DatePool, t \in TimePool }

\* the sections of the project: Week7 exists, Week03 does not
SectionsPool == { S_Week7 :> 11 }

\* the rows as read_rows yields them
ReadPool == { read_row(raw) : raw \in RowPool }

ImportIdle ==
    /\ rows = << >> /\ sections_map = << >> /\ idx = 0 /\ count = 0 /\ posts = << >>
    /\ created = << >> /\ status = "idle" /\ raised_by = 0 /\ done_report = -1 /\ log = << >>

\* the loop of main with every exception of create_task swallowed
MainIterate_swallow ==
    /\ status = "running"
    /\ idx < Len(rows)
    /\ idx' = idx + 1
    /\ \E out \in { RowOutcome(rows[idx + 1], sections_map) } :
           \/ /\ out.kind # "post"
              /\ count' = count + 1
              /\ log' = Append(log, IF out.kind = "skip" THEN "skipped" ELSE out.error)
              /\ UNCHANGED << posts, created, status, raised_by >>
           \/ /\ out.kind = "post"
              /\ \E resp \in { "ok", "HTTPError" } :
                    /\ posts' = Append(posts, [row |-> idx + 1, payload |-> out.payload, response |-> resp])
                    /\ created' = IF resp = "ok"
                                  THEN Append(created, [id |-> 1000 + Len(created) + 1,
                                                        content |-> out.payload["content"]])
                                  ELSE created
                    /\ count' = count + 1
                    /\ log' = Append(log, IF resp = "ok" THEN "created" ELSE "HTTPError")
                    /\ UNCHANGED << status, raised_by >>
    /\ UNCHANGED << rows, sections_map, done_report >>
    /\ UNCHANGED << prioVars, parseVars, grabVars >>

\* One pass of `for r in read_rows(csv_path)`: lines 215-226 with create_task.
\* The service answers the POST with success or with an HTTP error.  log holds,
\* row by row, what the pass printed: the skip line, the line of the created
\* task, "Failed to create task", or the uncaught exception.
MainIterate ==
    /\ status = "running"
    /\ idx < Len(rows)
    /\ idx' = idx + 1
    /\ \E out \in { RowOutcome(rows[idx + 1], sections_map) } :
           \/ /\ out.kind = "skip"
              /\ count' = count + 1
              /\ log' = Append(log, "skipped")
              /\ UNCHANGED << posts, created, status, raised_by >>
           \/ /\ out.kind = "raise"
              /\ status' = "raised"
              /\ raised_by' = idx + 1
              /\ log' = Append(log, out.error)
              /\ UNCHANGED << posts, created, count >>
           \/ /\ out.kind = "post"
              /\ posts' = Append(posts, [row |-> idx + 1, payload |-> out.payload, response |-> "ok"])
              /\ created' = Append(created, [id |-> 1000 + Len(created) + 1,
                                             content |-> out.payload["content"]])
              /\ count' = count + 1
              /\ log' = Append(log, "created")
              /\ UNCHANGED << status, raised_by >>
           \/ /\ out.kind = "post"
              /\ posts' = Append(posts, [row |-> idx + 1, payload |-> out.payload, response |-> "HTTPError"])
              /\ status' = "raised"
              /\ raised_by' = idx + 1
              /\ log' = Append(log, "HTTPError")
              /\ UNCHANGED << created, count >>
    /\ UNCHANGED << rows, sections_map, done_report >>
    /\ UNCHANGED << prioVars, parseVars, grabVars >>

\* line 228: the rows are exhausted, print "Done. Created {count} task(s)."
MainDone ==
    /\ status = "running"
    /\ idx = Len(rows)
    /\ status' = "done"
    /\ done_report' = count
    /\ UNCHANGED << rows, sections_map, idx, count, posts, created, raised_by, log >>
    /\ UNCHANGED << prioVars, parseVars, grabVars >>

\* the state of the parts a specification leaves alone
NotCalled == [called |-> FALSE]

PrioIdle  == p_val = None /\ p_ret = 0
ParseIdle == c_tokens = << >> /\ c_content = << >> /\ c_ret = NotCalled

----------------------------------------------------------------------------
(* YTDOIT.TranscriptGrabber *)

\* a file that was never written
NoFile == << "<no file>" >>

IdChars == Range(LowerChars) \cup Range(UpperChars) \cup Digits \cup { "_", "-" }

\* s with prefix removed when it starts with it
SkipPrefix(s, prefix) == IF startswith(s, prefix) THEN DropFirst(s, Len(prefix)) ELSE s

\* sub in s
Contains(s, sub) == \E i \in 1..(Len(s) - Len(sub) + 1) : SubSeq(s, i, i + Len(sub) - 1) = sub

\* VIDEO_ID_RX.match(url): the 11-character id or None
video_id_from_url(url) ==
    LET a == IF startswith(url, << "h", "t", "t", "p", "s", ":", "/", "/" >>) THEN DropFirst(url, 8)
             ELSE SkipPrefix(url, << "h", "t", "t", "p", ":", "/", "/" >>)
        b == SkipPrefix(a, << "w", "w", "w", "." >>)
        c == IF startswith(b, << "y", "o", "u", "t", "u", "b", "e", ".", "c", "o", "m", "/" >>) THEN DropFirst(b, Len(<< "y", "o", "u", "t", "u", "b", "e", ".", "c", "o", "m", "/" >>)) ELSE b
        d == IF startswith(b, << "y", "o", "u", "t", "u", ".", "b", "e", "/" >>) THEN DropFirst(b, Len(<< "y", "o", "u", "t", "u", ".", "b", "e", "/" >>))
             ELSE IF startswith(c, << "w", "a", "t", "c", "h", "?", "v", "=" >>) THEN DropFirst(c, Len(<< "w", "a", "t", "c", "h", "?", "v", "=" >>))
             ELSE IF startswith(c, << "e", "m", "b", "e", "d", "/" >>) THEN DropFirst(c, Len(<< "e", "m", "b", "e", "d", "/" >>))
             ELSE IF startswith(c, << "v", "/" >>) THEN DropFirst(c, Len(<< "v", "/" >>))
             ELSE None
        hostOk == startswith(b, << "y", "o", "u", "t", "u", ".", "b", "e", "/" >>) \/ (startswith(b, << "y", "o", "u", "t", "u", "b", "e", ".", "c", "o", "m", "/" >>) /\ d # None)
    IN  IF hostOk /\ d # None /\ Len(d) >= 11 /\ \A i \in 1..11 : d[i] \in IdChars
        THEN SubSeq(d, 1, 11)
        ELSE None

\* What YouTubeTranscriptApi.get_transcript does: it returns the chunks of the
\* transcript or raises one of its errors
ChunkPool == { << << " ", "h", "i" >>, << "y", "o", " " >> >> }

ApiOutcomes ==
    { [kind |-> "chunks", chunks |-> c] : c \in ChunkPool }
        \cup { [kind |-> "TranscriptsDisabled"], [kind |-> "NoTranscriptFound"],
               [kind |-> "OtherError"] }

\* fetch_transcript_text with NoTranscriptFound left out of the except clause
fetch_transcript_text_narrow(api) ==
    IF api.kind = "TranscriptsDisabled"
    THEN [kind |-> "return", text |-> << >>, warned |-> TRUE]
    ELSE IF api.kind = "chunks"
    THEN [kind |-> "return", warned |-> FALSE,
          text |-> join(<< " " >>, [i \in 1..Len(api.chunks) |-> strip(api.chunks[i])])]
    ELSE [kind |-> "raise"]

\* fetch_transcript_text, given what the API call did: the text returned (with
\* the warning printed or not), or the exception let through
fetch_transcript_text(api) ==
    IF api.kind \in { "TranscriptsDisabled", "NoTranscriptFound" }
    THEN [kind |-> "return", text |-> << >>, warned |-> TRUE]
    ELSE IF api.kind = "chunks"
    THEN [kind |-> "return", warned |-> FALSE,
          text |-> join(<< " " >>, [i \in 1..Len(api.chunks) |-> strip(api.chunks[i])])]
    ELSE [kind |-> "raise"]

Dashes == [i \in 1..40 |-> "-"]

\* f"\n{'-'*40}\n{title}\n{'-'*40}\n{text}\n"
Block(title, text) ==
    << "\n" >> \o Dashes \o << "\n" >> \o title \o << "\n" >> \o Dashes \o << "\n" >> \o text \o << "\n" >>

\* The entries ydl.extract_info lists; a None entry is a placeholder
V_1 == [id |-> << "a", "a", "a", "a", "a", "a", "a", "a", "a", "a", "a" >>, title |-> << "t", "1" >>]
V_2 == [id |-> << "b", "b", "b", "b", "b", "b", "b", "b", "b", "_", "2" >>, title |-> << "t", "2" >>]
NoEntry == [id |-> None, title |-> None]

\* the first n entries of the listing V_1, placeholder, V_2, V_1, placeholder, ...
Listing(n) ==
    [i \in 1..n |-> IF i % 3 = 1 THEN V_1 ELSE IF i % 3 = 2 THEN NoEntry ELSE V_2]

RECURSIVE get_playlist_items(_)
\* lines 74-84: the entries without the placeholders
get_playlist_items(entries) ==
    IF entries = << >> THEN << >>
    ELSE IF Head(entries) = NoEntry THEN get_playlist_items(Tail(entries))
    ELSE << Head(entries) >> \o get_playlist_items(Tail(entries))

\* what is typed at the prompt
U_short  == << "y", "o", "u", "t", "u", ".", "b", "e", "/", "a", "a", "a", "a", "a", "a", "a", "a", "a", "a", "a" >>
U_watch  == << " ", "h", "t", "t", "p", "s", ":", "/", "/", "w", "w", "w", ".", "y", "o", "u", "t", "u", "b", "e", ".", "c", "o", "m", "/", "w", "a", "t", "c", "h", "?", "v", "=", "b", "b", "b", "b", "b", "b", "b", "b", "b", "_", "2" >>
U_bad    == << "y", "o", "u", "t", "u", ".", "b", "e", "/", "a", "b", "c" >>
U_list   == << "y", "o", "u", "t", "u", "b", "e", ".", "c", "o", "m", "/", "p", "l", "a", "y", "l", "i", "s", "t", "?", "l", "i", "s", "t", "=", "P", "L" >>
U_q      == << "Q" >>

UrlPool == { U_short, U_watch, U_bad, U_list, U_q }

GrabIdle ==
    /\ raw_file = NoFile /\ txt_file = NoFile /\ clipboard = NoFile
    /\ g_pc = "idle" /\ g_op = "none" /\ g_videos = << >> /\ g_idx = 0 /\ g_combined = << >>
    /\ g_fetched = << >> /\ g_result = "none" /\ g_text = NoFile

\* "q" typed: the loop ends
Quit ==
    /\ g_pc = "prompt"
    /\ \E url \in UrlPool :
          /\ lower(strip(url)) = << "q" >>
          /\ g_pc' = "quit"
    /\ UNCHANGED << raw_file, txt_file, clipboard, g_op, g_videos, g_idx, g_combined,
                    g_fetched, g_result, g_text >>
    /\ UNCHANGED << prioVars, parseVars, importVars >>

\* grab_single(url) called by the CLI loop, which catches and prints exceptions
GrabSingle ==
    /\ g_pc = "prompt"
    /\ \E url \in UrlPool, api \in ApiOutcomes :
          /\ lower(strip(url)) # << "q" >>
          /\ ~Contains(strip(url), << "l", "i", "s", "t" >>)
          /\ \E vid_id \in { video_id_from_url(strip(url)) }, got \in { fetch_transcript_text(api) } :
                 IF ~Truthy(vid_id)
                 THEN /\ g_result' = "ValueError"
                      /\ g_fetched' = << >>
                      /\ UNCHANGED << raw_file, txt_file, clipboard, g_text >>
                 ELSE IF got.kind = "raise"
                 THEN /\ g_result' = "fetch_error"
                      /\ g_fetched' = << [id |-> vid_id, api |-> api.kind, warned |-> FALSE, text |-> << >>] >>
                      /\ UNCHANGED << raw_file, txt_file, clipboard, g_text >>
                 ELSE /\ raw_file' = got.text
                      /\ txt_file' = got.text
                      /\ clipboard' = got.text
                      /\ g_text' = got.text
                      /\ g_result' = "ok"
                      /\ g_fetched' = << [id |-> vid_id, api |-> api.kind, warned |-> got.warned, text |-> got.text] >>
    /\ g_op' = "single"
    /\ UNCHANGED << g_pc, g_videos, g_idx, g_combined >>
    /\ UNCHANGED << prioVars, parseVars, importVars >>

\* grab_playlist up to the loop: lines 102-108
PlaylistStart ==
    /\ g_pc = "prompt"
    /\ \E url \in UrlPool, n \in 0..MaxEntries :
          /\ lower(strip(url)) # << "q" >>
          /\ Contains(strip(url), << "l", "i", "s", "t" >>)
          /\ LET videos == get_playlist_items(Listing(n))
             IN  IF videos = << >>
                 THEN /\ g_result' = "RuntimeError"
                      /\ g_pc' = "prompt"
                      /\ g_videos' = << >>
                 ELSE /\ g_result' = "running"
                      /\ g_pc' = "playlist_loop"
                      /\ g_videos' = videos
    /\ g_op' = "playlist"
    /\ g_idx' = 0
    /\ g_combined' = << >>
    /\ g_fetched' = << >>
    /\ UNCHANGED << raw_file, txt_file, clipboard, g_text >>
    /\ UNCHANGED << prioVars, parseVars, importVars >>

\* one pass of the loop of grab_playlist: lines 109-115
PlaylistFetch ==
    /\ g_pc = "playlist_loop"
    /\ g_idx < Len(g_videos)
    /\ \E api \in ApiOutcomes :
          \E video \in { g_videos[g_idx + 1] }, got \in { fetch_transcript_text(api) } :
              IF got.kind = "raise"
              THEN /\ g_result' = "fetch_error"
                   /\ g_pc' = "prompt"
                   /\ g_fetched' = Append(g_fetched, [id |-> video.id, api |-> api.kind,
                                                      warned |-> FALSE, text |-> << >>])
                   /\ UNCHANGED << g_idx, g_combined >>
              ELSE /\ g_combined' = Append(g_combined, Block(video.title, got.text))
                   /\ g_idx' = g_idx + 1
                   /\ g_fetched' = Append(g_fetched, [id |-> video.id, api |-> api.kind,
                                                      warned |-> got.warned, text |-> got.text])
                   /\ UNCHANGED << g_result, g_pc >>
    /\ UNCHANGED << raw_file, txt_file, clipboard, g_op, g_videos, g_text >>
    /\ UNCHANGED << prioVars, parseVars, importVars >>

\* the end of grab_playlist: lines 117-121
PlaylistFinish ==
    /\ g_pc = "playlist_loop"
    /\ g_idx = Len(g_videos)
    /\ LET final_text == join(<< "\n" >>, g_combined)
       IN  /\ txt_file' = final_text
           /\ clipboard' = final_text
           /\ g_text' = final_text
    /\ g_result' = "ok"
    /\ g_pc' = "prompt"
    /\ UNCHANGED << raw_file, g_op, g_videos, g_idx, g_combined, g_fetched >>
    /\ UNCHANGED << prioVars, parseVars, importVars >>

----------------------------------------------------------------------------
(* The specifications *)

\* to_priority applied to None and to every text of at most MaxPrioLen characters
InitPriority ==
    /\ \/ p_val = None
       \/ \E n \in 0..MaxPrioLen : p_val \in [1..n -> PrioChars]
    /\ p_ret = 0
    /\ ParseIdle /\ ImportIdle /\ GrabIdle

CallToPriority ==
    /\ p_ret = 0
    /\ p_ret' = to_priority(p_val)
    /\ UNCHANGED << p_val, parseVars, importVars, grabVars >>

NextPriority == CallToPriority

SpecPriority == InitPriority /\ [][NextPriority]_vars

\* parse_content applied to CONTENT built from at most MaxTokens tokens
InitParse ==
    /\ \E n \in 0..MaxTokens : c_tokens \in [1..n -> TokenPool]
    /\ \E lead \in LeadPool, sep \in SepPool : c_content = BuildContent(lead, sep, c_tokens)
    /\ c_ret = NotCalled
    /\ PrioIdle /\ ImportIdle /\ GrabIdle

CallParseContent ==
    /\ c_ret = NotCalled
    /\ c_ret' = parse_content(c_content)
    /\ UNCHANGED << c_tokens, c_content, prioVars, importVars, grabVars >>

NextParse == CallParseContent

SpecParse == InitParse /\ [][NextParse]_vars

\* main of todoist_add after get_sections_map, over a CSV of at most MaxRows
\* rows: nothing is processed yet
InitImport ==
    /\ \E n \in 0..MaxRows : rows \in [1..n -> ReadPool]
    /\ sections_map \in SectionsPool
    /\ idx = 0 /\ count = 0 /\ posts = << >> /\ created = << >>
    /\ status = "running" /\ raised_by = 0 /\ done_report = -1 /\ log = << >>
    /\ PrioIdle /\ ParseIdle /\ GrabIdle

NextImport == MainIterate \/ MainDone

SpecImport == InitImport /\ [][NextImport]_vars

\* The CLI loop of YTDOIT, at the prompt before any
\* URL is typed; the output files and the clipboard hold nothing of it yet
InitGrab ==
    /\ raw_file = NoFile /\ txt_file = NoFile /\ clipboard = NoFile
    /\ g_pc = "prompt" /\ g_op = "none" /\ g_videos = << >> /\ g_idx = 0 /\ g_combined = << >>
    /\ g_fetched = << >> /\ g_result = "none" /\ g_text = NoFile
    /\ PrioIdle /\ ParseIdle /\ ImportIdle

NextGrab == Quit \/ GrabSingle \/ PlaylistStart \/ PlaylistFetch \/ PlaylistFinish

SpecGrab == InitGrab /\ [][NextGrab]_vars

----------------------------------------------------------------------------
(* Claims about to_priority (SpecPriority) *)

\* the mapping the specification gives: trim, ignore case, drop one optional
\* leading P, then "1" -> 4, "2" -> 3, "3" -> 2, "4" -> 1 and anything else -> 1
RefPriority(val) ==
    IF val = None THEN 1
    ELSE LET t    == strip(val)
             core == IF t # << >> /\ t[1] \in { "P", "p" } THEN Tail(t) ELSE t
         IN  CASE core = << "1" >> -> 4
               [] core = << "2" >> -> 3
               [] core = << "3" >> -> 2
               [] core = << "4" >> -> 1
               [] OTHER -> 1

\* C1: to_priority is total and equals the reference mapping for every value;
\* unrecognized, empty and missing values map to 1, the lowest priority.
C1_PriorityEqualsReference == p_ret # 0 => p_ret = RefPriority(p_val)

----------------------------------------------------------------------------
(* Claims about parse_content (SpecParse) *)

\* the section markers of TokenPool and the section each one names
WeekMarkers == { T_Week7, T_week_03 }

RefSection(t) == IF t = T_Week7 THEN S_Week7 ELSE S_Week03

IsMarkerTok(t) == t \in WeekMarkers
IsLabelTok(t)  == t[1] = "@" /\ Len(t) > 1
IsTitleTok(t)  == ~IsMarkerTok(t) /\ ~IsLabelTok(t)

MarkerToks == SelectSeq(c_tokens, IsMarkerTok)
LabelToks  == SelectSeq(c_tokens, IsLabelTok)
TitleToks  == SelectSeq(c_tokens, IsTitleTok)

ParseCalled == c_ret # NotCalled

C8_ParsePartition ==
    ParseCalled =>
        /\ c_ret.labels = [i \in 1..Len(LabelToks) |-> Tail(LabelToks[i])]
        /\ c_ret.title = join(<< " " >>, TitleToks)
        /\ split(c_ret.title) = TitleToks
        /\ Len(c_ret.labels) + Len(split(c_ret.title)) + Len(MarkerToks) = Len(c_tokens)
        /\ (c_tokens = << >> =>
               c_ret = [title |-> << >>, labels |-> << >>, section_name |-> None])

\* a CONTENT with a bare "@", a label and a section marker was parsed
C8_MixedTokensParsed ==
    /\ ParseCalled
    /\ \E i \in 1..Len(c_tokens) : c_tokens[i] = T_at
    /\ LabelToks # << >>
    /\ MarkerToks # << >>

----------------------------------------------------------------------------
(* Claims about create_task and the loop of main (SpecImport) *)

\* what the CSV cells of the pools are, said without the code
ValidDates == { D_good }
ValidTimes == { strip(H_good) }

EmptyTitleContents == { << >>, T_at_b \o << " " >> \o T_week_03 }

HasTitle(r) == r.CONTENT \notin EmptyTitleContents

MalformedDue(r) ==
    \/ r.DUE_DATE # << >> /\ r.DUE_DATE \notin ValidDates
    \/ r.DUE_TIME # << >> /\ r.DUE_TIME \notin ValidTimes

PostsOfRow(i) == { k \in 1..Len(posts) : posts[k].row = i }

DueKeys == { "due_date", "due_datetime", "due_lang", "due_string" }

\* C3: a row with a title and a malformed DUE_DATE or DUE_TIME raises and
\* issues no POST, in every combination of the two fields.
C3_MalformedDueRejected ==
    \A i \in 1..idx :
        (HasTitle(rows[i]) /\ MalformedDue(rows[i])) =>
            (raised_by = i /\ PostsOfRow(i) = { })

\* row i was processed and went wrong: create_task raised before the POST, or
\* the POST came back with an HTTP error
RaisedBeforePost(i) == log[i] \notin { "skipped", "created", "HTTPError" }
HttpErrorAt(i)      == \E k \in PostsOfRow(i) : posts[k].response = "HTTPError"

UnknownSection(r) ==
    r.CONTENT = T_A \o << " " >> \o T_week_03 /\ S_Week03 \notin DOMAIN sections_map

OkPosts == SelectSeq(posts, LAMBDA p : p.response = "ok")

\* C4: the loop halts on error: once row i raised, no later row is read or
\* POSTed, the Done report is not reached, the tasks created before stay
\* created; an unknown section name gives no POST for row i itself.
C4_HaltOnError ==
    \A i \in 1..idx :
        /\ Len(log) = idx
        /\ (RaisedBeforePost(i) \/ HttpErrorAt(i)) =>
              /\ idx = i
              /\ status = "raised" /\ raised_by = i
              /\ done_report = -1
              /\ \A k \in 1..Len(posts) : posts[k].row <= i
              /\ Len(created) = Len(OkPosts)
              /\ \A k \in 1..Len(OkPosts) :
                    OkPosts[k].row < i /\ created[k].content = OkPosts[k].payload["content"]
        /\ (HasTitle(rows[i]) /\ UnknownSection(rows[i])) =>
              (status = "raised" /\ raised_by = i /\ PostsOfRow(i) = { })

\* row 1 named an unknown section and raised while row 2 was still to come
C4_RaisedWithRowsLeft ==
    /\ status = "raised" /\ raised_by = 1 /\ Len(rows) > 1
    /\ UnknownSection(rows[1]) /\ ~MalformedDue(rows[1])
    /\ posts = << >>

\* C5: a row whose title is empty is skipped: no POST, no error, whatever its
\* due fields and section are, and the loop goes on with the next row.
C5_EmptyTitleSkipped ==
    \A i \in 1..idx :
        ~HasTitle(rows[i]) =>
            /\ PostsOfRow(i) = { }
            /\ raised_by # i
            /\ (idx = i => status \in { "running", "done" })
            /\ (idx = i /\ i < Len(rows) => status = "running")

\* a row of tags and an unknown section with malformed due fields was skipped
\* and the row after it was POSTed
C5_SkippedThenPosted ==
    /\ idx = 2
    /\ rows[1].CONTENT = T_at_b \o << " " >> \o T_week_03
    /\ rows[1].DUE_DATE = D_month13 /\ rows[1].DUE_TIME = H_hour25
    /\ PostsOfRow(1) = { }
    /\ PostsOfRow(2) # { }

\* C9: the due fields of every payload POSTed: none without DUE_DATE (even with
\* DUE_TIME); due_date alone, equal to the date, with DUE_DATE and no DUE_TIME;
\* due_datetime and due_lang without due_date with both; never due_date and
\* due_datetime together; due_lang exactly with due_datetime.
C9_DueFieldsOfPayload ==
    \A k \in 1..Len(posts) :
        LET r    == rows[posts[k].row]
            keys == DOMAIN posts[k].payload
        IN  /\ r.DUE_DATE = << >> => keys \cap DueKeys = { }
            /\ (r.DUE_DATE # << >> /\ r.DUE_TIME = << >>) =>
                  /\ keys \cap DueKeys = { "due_date" }
                  /\ posts[k].payload["due_date"] = r.DUE_DATE
            /\ (r.DUE_DATE # << >> /\ r.DUE_TIME # << >>) =>
                  keys \cap DueKeys = { "due_datetime", "due_lang" }
            /\ ~({ "due_date", "due_datetime" } \subseteq keys)
            /\ ("due_lang" \in keys <=> "due_datetime" \in keys)

\* a payload with a timed due value and one from a row with DUE_TIME but no
\* DUE_DATE were POSTed
C9_TimedAndTimeOnlyPosted ==
    /\ Len(posts) = 2
    /\ "due_datetime" \in DOMAIN posts[1].payload
    /\ rows[2].DUE_DATE = << >> /\ rows[2].DUE_TIME # << >>

\* C10: the N of "Done. Created N task(s)." is the number of tasks created.
C10_DoneCountIsCreated == status = "done" => done_report = Len(created)

----------------------------------------------------------------------------
(* Claims about TranscriptGrabber (SpecGrab) *)

\* C6: after every successful run, grab_single or grab_playlist, both output
\* files and the clipboard hold the text of that run.
C6_OutputsHoldRunText ==
    (g_pc = "prompt" /\ g_result = "ok") =>
        (raw_file = g_text /\ txt_file = g_text /\ clipboard = g_text)

FetchFailures == { "TranscriptsDisabled", "NoTranscriptFound", "OtherError" }
NoTranscript  == { "TranscriptsDisabled", "NoTranscriptFound" }

\* the entries fetched so far are the first entries of the playlist, in order
FetchedInOrder ==
    /\ Len(g_fetched) <= Len(g_videos)
    /\ \A i \in 1..Len(g_fetched) : g_fetched[i].id = g_videos[i].id

\* the failed fetch i was logged and gave a block with empty text
LoggedAndEmpty(i) ==
    /\ g_fetched[i].warned
    /\ i <= Len(g_combined)
    /\ g_combined[i] = Block(g_videos[i].title, << >>)

\* the run ended with one block per entry written to the transcript file
AllBlocksWritten ==
    /\ Len(g_fetched) = Len(g_videos)
    /\ Len(g_combined) = Len(g_videos)
    /\ txt_file = join(<< "\n" >>, [i \in 1..Len(g_videos) |->
                                       Block(g_videos[i].title, g_fetched[i].text)])

\* C7 as stated: whatever the kind of fetch failure, it is logged, empty text
\* takes its place and the loop of grab_playlist goes on to the end.
C7_AnyFetchFailureContinues ==
    g_op = "playlist" =>
        /\ FetchedInOrder
        /\ \A i \in 1..Len(g_fetched) :
              g_fetched[i].api \in FetchFailures => LoggedAndEmpty(i)
        /\ g_result \in { "running", "ok", "RuntimeError" }
        /\ (g_result = "ok" => AllBlocksWritten)

\* C7 amended: a fetch that fails with TranscriptsDisabled or NoTranscriptFound
\* is logged, gives empty text, and the loop goes on through every remaining
\* entry, once each and in order, to an output of one block per entry; any
\* other error raised by the fetch ends grab_playlist at that entry.
C7_NoTranscriptContinues ==
    g_op = "playlist" =>
        /\ FetchedInOrder
        /\ \A i \in 1..Len(g_fetched) :
              /\ g_fetched[i].api \in NoTranscript => LoggedAndEmpty(i)
              /\ g_fetched[i].api = "OtherError" =>
                    (i = Len(g_fetched) /\ g_result = "fetch_error" /\ g_pc # "playlist_loop")
        /\ (g_result = "fetch_error" =>
               g_fetched # << >> /\ g_fetched[Len(g_fetched)].api = "OtherError")
        /\ (g_pc = "playlist_loop" => g_result = "running" /\ Len(g_combined) = Len(g_fetched))
        /\ (g_result = "ok" => AllBlocksWritten)

\* a playlist run ended well although the fetch of its first entry found no
\* transcript; the second entry was fetched after it
C7_FailureThenFetched ==
    /\ g_op = "playlist" /\ g_result = "ok" /\ g_pc = "prompt"
    /\ Len(g_videos) = 2
    /\ g_fetched[1].api = "NoTranscriptFound"
    /\ g_fetched[2].api = "chunks" /\ g_fetched[2].text # << >>

====
